---- MODULE Spec2Model ----
(***************************************************************************)
(* Market-intelligence pipeline of backend/app: the Heat Index Scorer      *)
(* (analytics/engine.py), the Listing Reconciler, Metric Aggregator,       *)
(* periodic alert check and Sweeper (tasks/celery_app.py).                 *)
(*                                                                         *)
(* Numbers.  Python floats are modelled as exact rationals <<n, d>> with   *)
(* d > 0, kept in lowest terms.  A heat index is returned in tenths (an    *)
(* integer: 800 is 80.0), which is what round(x, 1) yields.  Timestamps    *)
(* are integers counting minutes.                                          *)
(***************************************************************************)
EXTENDS Integers, Sequences, FiniteSets, TLC

VARIABLES
    scoreIn,     \* arguments of the latest compute_heat_index call
    scoreOut,    \* its return value in tenths: <<v>>, or <<>> before the call
    prevIn,      \* arguments of the call before it
    prevOut,     \* return value of the call before it: <<v>> or <<>>
    now,         \* datetime.utcnow(), in minutes
    listings,    \* table listings: sequence of rows
    history,     \* table price_history: sequence of rows
    jobs,        \* table scrape_jobs: sequence of rows
    metrics,     \* table market_metrics: sequence of rows
    alerts,      \* table alerts: sequence of rows
    last,        \* log of the latest task run: what each of its steps did
    alertIn,     \* arguments of a check_and_create_alerts call: area, metrics dict
    alertOut,    \* what the call did: <<result>>, or <<>> before the call
    workers      \* the scrape_all_sources runs in progress, one per worker

scoreVars == <<scoreIn, scoreOut, prevIn, prevOut>>
storeVars == <<listings, history, jobs, metrics, alerts>>
evalVars == <<alertIn, alertOut>>
vars == <<scoreIn, scoreOut, prevIn, prevOut, now, listings, history, jobs,
          metrics, alerts, last, alertIn, alertOut, workers>>

\* Python's None, and a present value: optional values are <<>> or <<v>>
NoValue == <<>>
Some(v) == <<v>>

-----------------------------------------------------------------------------
(* Exact rational arithmetic standing for Python float arithmetic.         *)

Abs(x) == IF x < 0 THEN -x ELSE x

RECURSIVE GCD(_, _)
GCD(a, b) == IF b = 0 THEN a ELSE GCD(b, a % b)

Rat(n, d) ==
    LET s == IF d < 0 THEN -1 ELSE 1
        g == GCD(Abs(n), Abs(d))
    IN  IF n = 0 THEN <<0, 1>> ELSE <<(s * n) \div g, (s * d) \div g>>

RInt(k) == <<k, 1>>
RAdd(a, b) == Rat(a[1] * b[2] + b[1] * a[2], a[2] * b[2])
RSub(a, b) == Rat(a[1] * b[2] - b[1] * a[2], a[2] * b[2])
RMul(a, b) == Rat(a[1] * b[1], a[2] * b[2])
RDiv(a, b) == Rat(a[1] * b[2], a[2] * b[1])
RLe(a, b) == a[1] * b[2] <= b[1] * a[2]
RLt(a, b) == a[1] * b[2] < b[1] * a[2]
RMin(a, b) == IF RLe(a, b) THEN a ELSE b
RMax(a, b) == IF RLe(a, b) THEN b ELSE a
RAbs(a) == <<Abs(a[1]), a[2]>>

\* round(x, k) for k decimals, as the integer x * 10^k rounded half to even
RoundScaled(x, scale) ==
    LET n == x[1] * scale
        q == n \div x[2]
        r == n % x[2]
    IN  IF 2 * r < x[2] THEN q
        ELSE IF 2 * r > x[2] THEN q + 1
        ELSE IF q % 2 = 0 THEN q ELSE q + 1

-----------------------------------------------------------------------------
(* analytics/engine.py: compute_heat_index                                 *)

DefaultAreaCapacity == 500

\* the body with the final clamp to [0, 100] left out
compute_heat_index_noclamp(velocity_ratio, price_change_pct, active_listings, area_capacity) ==
    LET velocity_score == RMin(RInt(40), RMul(RSub(velocity_ratio, <<1, 2>>), RInt(40)))
        price_score == RMin(RInt(40), RMax(RInt(0), RAdd(RInt(20), RMul(price_change_pct, RInt(4)))))
        saturation == RMin(RInt(1), Rat(active_listings, area_capacity))
        demand_score == RMul(RSub(RInt(1), saturation), RInt(20))
        heat == RAdd(RAdd(velocity_score, price_score), demand_score)
    IN  RoundScaled(heat, 10)

\* the body with the velocity term subtracted instead of added
compute_heat_index_negvel(velocity_ratio, price_change_pct, active_listings, area_capacity) ==
    LET velocity_score == RMin(RInt(40), RMul(RSub(velocity_ratio, <<1, 2>>), RInt(40)))
        price_score == RMin(RInt(40), RMax(RInt(0), RAdd(RInt(20), RMul(price_change_pct, RInt(4)))))
        saturation == RMin(RInt(1), Rat(active_listings, area_capacity))
        demand_score == RMul(RSub(RInt(1), saturation), RInt(20))
        heat == RAdd(RSub(price_score, velocity_score), demand_score)
    IN  RoundScaled(RMax(RInt(0), RMin(RInt(100), heat)), 10)

compute_heat_index(velocity_ratio, price_change_pct, active_listings, area_capacity) ==
    LET velocity_score == RMin(RInt(40), RMul(RSub(velocity_ratio, <<1, 2>>), RInt(40)))
        price_score == RMin(RInt(40), RMax(RInt(0), RAdd(RInt(20), RMul(price_change_pct, RInt(4)))))
        saturation == RMin(RInt(1), Rat(active_listings, area_capacity))
        demand_score == RMul(RSub(RInt(1), saturation), RInt(20))
        heat == RAdd(RAdd(velocity_score, price_score), demand_score)
    IN  RoundScaled(RMax(RInt(0), RMin(RInt(100), heat)), 10)

-----------------------------------------------------------------------------
(* Inputs of the scorer: velocity ratios k/4, whole price-change           *)
(* percentages, listing counts in steps of 125.                            *)

MaxVelocityQuarters == 9
MaxPricePct == 6
MaxListingSteps == 5

VelocityInputs == { Rat(k, 4) : k \in -1..MaxVelocityQuarters }
PriceInputs == { RInt(p) : p \in -MaxPricePct..MaxPricePct }
ListingInputs == { 125 * k : k \in 0..MaxListingSteps }

ScoreInputs ==
    [velocity_ratio : VelocityInputs, price_change_pct : PriceInputs,
     active_listings : ListingInputs]

Score(in) ==
    compute_heat_index(in.velocity_ratio, in.price_change_pct,
                       in.active_listings, DefaultAreaCapacity)

-----------------------------------------------------------------------------
(* Time.  datetime.utcnow() is the variable now, in minutes.               *)

Hour == 60
Day == 24 * Hour
StartTime == 100 * Day + 30
TickStep == 15 * Day
MaxTicks == 1

-----------------------------------------------------------------------------
(* scrapers/base.py: ScrapedListing, and the records a scraper may return. *)
(* sub_area, property_type, bedrooms, bathrooms, size_sqft and url are     *)
(* copied into a new row and never read again; they are left out.          *)

ListedEarlier == StartTime - 3 * Day

Obs(id, t, p, sq, la) ==
    [external_id |-> id, title |-> t, price_aed |-> p, price_per_sqft |-> sq,
     listed_at |-> la]

ScrapedListings ==
    { Obs("e1", "A", 100, NoValue, NoValue),
      Obs("e1", "A", 105, NoValue, NoValue),
      Obs("e1", "A", 94, NoValue, NoValue),
      Obs("e1", "A", 0, NoValue, NoValue),
      Obs("e1", "B", 100, NoValue, NoValue),
      Obs("e1", "A", 100, Some(2), NoValue),
      Obs("e2", "A", 100, NoValue, Some(ListedEarlier)) }

\* ScrapedListing.content_hash: SHA-256 of the JSON of id, price and title,
\* taken to be collision-free: the hash is the triple itself
content_hash(scraped) ==
    <<scraped.external_id, scraped.price_aed, scraped.title>>

-----------------------------------------------------------------------------
(* scrapers/sources.py: the registry, and the competitors main.py seeds.   *)

SCRAPERS == {"Bayut", "Dubizzle", "MarketNews"}
AREAS == <<"JBR", "DIFC">>
Competitors == {"Bayut", "Dubizzle"}

MaxBatch == 2
MaxRuns == 2

RECURSIVE SeqsUpTo(_, _)
SeqsUpTo(S, n) ==
    IF n = 0 THEN {<<>>}
    ELSE LET shorter == SeqsUpTo(S, n - 1)
         IN  shorter \cup { Append(b, x) : b \in shorter, x \in S }

Batches == SeqsUpTo(ScrapedListings, MaxBatch)

\* scraper.scrape(area): every record of the batch carries the unit's area
Scrape(area, batch) ==
    [i \in 1..Len(batch) |-> [external_id |-> batch[i].external_id,
        title |-> batch[i].title, area |-> area,
        price_aed |-> batch[i].price_aed,
        price_per_sqft |-> batch[i].price_per_sqft,
        listed_at |-> batch[i].listed_at]]

-----------------------------------------------------------------------------
(* The store session of one task run.  rows is the listings table as the   *)
(* session sees it (committed rows with the session's own changes),        *)
(* pending the rows added and not yet INSERTed, hist the PriceHistory      *)
(* objects added, steps the log of what each record of the batch did.      *)

\* app/database.py is not part of the sources; the session factory is taken
\* to flush pending objects before each query, as SQLAlchemy does by default
SessionAutoflush == TRUE

SameKey(row, competitor_id, external_id) ==
    row.competitor_id = competitor_id /\ row.external_id = external_id

\* db.query(Listing).filter(external_id ==, competitor_id ==).first():
\* the index of the row, 0 for None
FindListing(rows, competitor_id, external_id) ==
    LET hits == { i \in 1..Len(rows) : SameKey(rows[i], competitor_id, external_id) }
    IN  IF hits = {} THEN 0 ELSE CHOOSE i \in hits : \A j \in hits : i <= j

\* a listings table without the unique constraint
UniqueViolation_off(rows, row) == FALSE

\* models.py uq_listing_external: an INSERT of a key already in the table fails
UniqueViolation(rows, row) ==
    FindListing(rows, row.competitor_id, row.external_id) # 0

RECURSIVE InsertAll(_, _)
InsertAll(rows, pending) ==
    IF pending = <<>> THEN [ok |-> TRUE, rows |-> rows]
    ELSE IF UniqueViolation(rows, Head(pending)) THEN [ok |-> FALSE, rows |-> rows]
    ELSE InsertAll(Append(rows, Head(pending)), Tail(pending))

\* the exceptions of a unit: the class, and the length of str(e)
\* ("division by zero"; a driver's message with the statement; a request error)
Exception(kind) ==
    [kind |-> kind,
     len |-> IF kind = "ZeroDivisionError" THEN 16
             ELSE IF kind = "IntegrityError" THEN 800 ELSE 60]

EmptySession(rows) ==
    [rows |-> rows, pending |-> <<>>, hist |-> <<>>, new_count |-> 0,
     updated_count |-> 0, raised |-> NoValue, steps |-> <<>>]

\* the flush a query triggers
Autoflush(s) ==
    IF ~SessionAutoflush \/ s.pending = <<>> THEN s
    ELSE LET r == InsertAll(s.rows, s.pending)
         IN  IF r.ok THEN [s EXCEPT !.rows = r.rows, !.pending = <<>>]
             ELSE [s EXCEPT !.raised = Some(Exception("IntegrityError"))]

\* Listing(...) of the new-listing branch; status, first_seen_at and
\* last_seen_at are not passed and take the column defaults (ACTIVE, utcnow)
NewListing(competitor_id, scraped, t) ==
    [competitor_id |-> competitor_id, external_id |-> scraped.external_id,
     title |-> scraped.title, area |-> scraped.area, status |-> "ACTIVE",
     price_aed |-> scraped.price_aed, price_per_sqft |-> scraped.price_per_sqft,
     content_hash |-> content_hash(scraped),
     first_seen_at |-> t, last_seen_at |-> t,
     listed_at |-> scraped.listed_at]

\* (new - old) / old * 100, for old # 0
ChangePct(old, new) == Rat((new - old) * 100, old)

\* PriceHistory(...): change_pct is round(change_pct, 2), kept in hundredths
NewPriceHistory(existing, scraped, t) ==
    [competitor_id |-> existing.competitor_id, external_id |-> existing.external_id,
     old_price_aed |-> existing.price_aed, new_price_aed |-> scraped.price_aed,
     change_pct |-> RoundScaled(ChangePct(existing.price_aed, scraped.price_aed), 100),
     recorded_at |-> t]

\* the status assignment under a strict abs(change_pct) > 5
StatusAfterPriceChange_strict(existing, change_pct) ==
    IF RLt(RInt(5), RAbs(change_pct))
    THEN (IF RLt(change_pct, RInt(0)) THEN "PRICE_REDUCED" ELSE "ACTIVE")
    ELSE existing.status

\* the status assignment marking a reduced listing REMOVED
StatusAfterPriceChange_removed(existing, change_pct) ==
    IF RLe(RInt(5), RAbs(change_pct))
    THEN (IF RLt(change_pct, RInt(0)) THEN "REMOVED" ELSE "ACTIVE")
    ELSE existing.status

\* the status assignment under abs(change_pct) >= 5
StatusAfterPriceChange_reactivate(existing, change_pct) ==
    IF RLt(change_pct, RInt(0)) /\ RLe(RInt(5), RAbs(change_pct))
    THEN "PRICE_REDUCED" ELSE "ACTIVE"

StatusAfterPriceChange(existing, change_pct) ==
    IF RLe(RInt(5), RAbs(change_pct))
    THEN (IF RLt(change_pct, RInt(0)) THEN "PRICE_REDUCED" ELSE "ACTIVE")
    ELSE existing.status

StepLog(scraped, existing, result, events, new_inc, upd_inc, raised) ==
    [scraped |-> scraped, existing |-> existing, result |-> result,
     events |-> events, new_inc |-> new_inc, upd_inc |-> upd_inc,
     raised |-> raised]

\* the branch for an existing row whose content hash differs
UpdateChanged(s, i, scraped, t) ==
    LET existing == s.rows[i]
        priceChanged == existing.price_aed # scraped.price_aed
    IN  IF priceChanged /\ existing.price_aed = 0
        THEN \* int / int with a zero divisor raises ZeroDivisionError
             [s EXCEPT !.raised = Some(Exception("ZeroDivisionError")),
                       !.steps = Append(@, StepLog(scraped, Some(existing), Some(existing),
                                                   <<>>, 0, 0, TRUE))]
        ELSE LET events == IF priceChanged
                           THEN <<NewPriceHistory(existing, scraped, t)>> ELSE <<>>
                 status == IF priceChanged
                           THEN StatusAfterPriceChange(existing,
                                    ChangePct(existing.price_aed, scraped.price_aed))
                           ELSE existing.status
                 updated == [existing EXCEPT !.status = status,
                                !.price_aed = scraped.price_aed,
                                !.price_per_sqft = scraped.price_per_sqft,
                                !.content_hash = content_hash(scraped),
                                !.last_seen_at = t]
             IN  [s EXCEPT !.rows[i] = updated,
                           !.hist = @ \o events,
                           !.updated_count = @ + 1,
                           !.steps = Append(@, StepLog(scraped, Some(existing), Some(updated),
                                                       events, 0, 1, FALSE))]

\* the matching-hash branch, refreshing price_per_sqft as well
TouchUnchanged_refresh(s, i, scraped, t) ==
    LET existing == s.rows[i]
        touched == [existing EXCEPT !.last_seen_at = t,
                                    !.price_per_sqft = scraped.price_per_sqft]
    IN  [s EXCEPT !.rows[i] = touched,
                  !.steps = Append(@, StepLog(scraped, Some(existing), Some(touched),
                                              <<>>, 0, 0, FALSE))]

\* the matching-hash branch, assigning first_seen_at instead of last_seen_at
TouchUnchanged_first_seen(s, i, scraped, t) ==
    LET existing == s.rows[i]
        touched == [existing EXCEPT !.first_seen_at = t]
    IN  [s EXCEPT !.rows[i] = touched,
                  !.steps = Append(@, StepLog(scraped, Some(existing), Some(touched),
                                              <<>>, 0, 0, FALSE))]

\* the branch for an existing row whose content hash matches
TouchUnchanged(s, i, scraped, t) ==
    LET existing == s.rows[i]
        touched == [existing EXCEPT !.last_seen_at = t]
    IN  [s EXCEPT !.rows[i] = touched,
                  !.steps = Append(@, StepLog(scraped, Some(existing), Some(touched),
                                              <<>>, 0, 0, FALSE))]

\* the branch for no existing row
AddNew(s, competitor_id, scraped, t) ==
    LET new_listing == NewListing(competitor_id, scraped, t)
    IN  [s EXCEPT !.pending = Append(@, new_listing),
                  !.new_count = @ + 1,
                  !.steps = Append(@, StepLog(scraped, NoValue, Some(new_listing),
                                              <<>>, 1, 0, FALSE))]

\* one iteration of `for scraped in listings`
ReconcileRecord(s0, competitor_id, scraped, t) ==
    IF s0.raised # NoValue THEN s0
    ELSE LET s == Autoflush(s0)
             i == FindListing(s.rows, competitor_id, scraped.external_id)
         IN  IF s.raised # NoValue THEN s
             ELSE IF i # 0
             THEN (IF s.rows[i].content_hash # content_hash(scraped)
                   THEN UpdateChanged(s, i, scraped, t)
                   ELSE TouchUnchanged(s, i, scraped, t))
             ELSE AddNew(s, competitor_id, scraped, t)

RECURSIVE ReconcileBatch(_, _, _, _)
ReconcileBatch(s, competitor_id, scraped_listings, t) ==
    IF scraped_listings = <<>> THEN s
    ELSE ReconcileBatch(ReconcileRecord(s, competitor_id, Head(scraped_listings), t),
                        competitor_id, Tail(scraped_listings), t)

-----------------------------------------------------------------------------
(* tasks/celery_app.py: scrape_all_sources, one (scraper, area) unit.      *)
(* The task runs its units one after the other and commits each on its     *)
(* own; a unit is one action, and the units of a trigger may be taken in   *)
(* any order.                                                              *)

\* the log of a task run: for a scrape unit, when it ran, what the scraper
\* returned, what each record did, how the job ended, whether the session's
\* work was committed, and whether the unit before it was this same unit
\* (same competitor, area and batch) ending in SUCCESS
EmptyLog(task) ==
    [task |-> task, competitor_id |-> "", area |-> "", at |-> 0, batch |-> <<>>,
     steps |-> <<>>, status |-> "", committed |-> FALSE, repeat |-> FALSE]

NewJob(competitor_id, area, t) ==
    [competitor_id |-> competitor_id, area |-> area, status |-> "RUNNING",
     listings_found |-> 0, listings_new |-> 0, listings_updated |-> 0,
     error_message |-> NoValue, created_at |-> t]

\* str(e)[:500]: an exception is its class and the length of its text
ErrorText(e) == [kind |-> e.kind, len |-> IF e.len < 500 THEN e.len ELSE 500]

\* app/database.py is not part of the sources; after a flush that failed the
\* session's transaction is rolled back and stays inactive until
\* db.rollback() is called, as SQLAlchemy sessions do: a later db.commit()
\* raises instead of committing
SessionInactiveAfterFlushError == TRUE

\* the unit's try block and its except handler, from the fetched listings on:
\* what is committed, how the job ends, and whether an exception leaves the
\* handler (which ends the whole task)
FinishUnit(s, job, found) ==
    LET r == InsertAll(s.rows, s.pending)
        flushFailed == IF s.raised = NoValue THEN FALSE
                       ELSE s.raised[1].kind = "IntegrityError"
    IN  IF s.raised = NoValue /\ r.ok
        THEN [rows |-> r.rows, hist |-> s.hist, committed |-> TRUE, aborted |-> FALSE,
              job |-> [job EXCEPT !.status = "SUCCESS", !.listings_found = found,
                          !.listings_new = s.new_count,
                          !.listings_updated = s.updated_count]]
        ELSE IF s.raised # NoValue /\ ~flushFailed /\ r.ok
        THEN \* the loop raised; the handler's commit writes what the loop had done
             [rows |-> r.rows, hist |-> s.hist, committed |-> TRUE, aborted |-> FALSE,
              job |-> [job EXCEPT !.status = "FAILED",
                          !.error_message = Some(ErrorText(s.raised[1]))]]
        ELSE IF (s.raised = NoValue \/ flushFailed) /\ ~SessionInactiveAfterFlushError
        THEN \* a flush failed and rolled the unit back; the handler commits the job
             [rows |-> <<>>, hist |-> <<>>, committed |-> FALSE, aborted |-> FALSE,
              job |-> [job EXCEPT !.status = "FAILED",
                          !.error_message = Some(ErrorText(Exception("IntegrityError")))]]
        ELSE \* a flush failed (in the loop, in the commit of the try block, or in
             \* the handler's own commit): the handler's db.commit() raises, the
             \* exception leaves the task and the job row stays as committed before
             [rows |-> <<>>, hist |-> <<>>, committed |-> FALSE, aborted |-> TRUE,
              job |-> job]

ScrapeUnit(name, area, batch) ==
    /\ name \in SCRAPERS
    /\ name \in Competitors          \* `if not competitor or not competitor.is_active: continue`
    /\ Len(jobs) < MaxRuns
    /\ LET scraped_listings == Scrape(area, batch)
           s == ReconcileBatch(EmptySession(listings), name, scraped_listings, now)
           f == FinishUnit(s, NewJob(name, area, now), Len(scraped_listings))
       IN  /\ listings' = IF f.committed THEN f.rows ELSE listings
           /\ history' = IF f.committed THEN history \o f.hist ELSE history
           /\ jobs' = Append(jobs, f.job)
           /\ last' = [task |-> "scrape", competitor_id |-> name, area |-> area,
                       at |-> now, batch |-> scraped_listings,
                       steps |-> s.steps, status |-> f.job.status,
                       committed |-> f.committed,
                       repeat |-> /\ last.task = "scrape"
                                  /\ last.status = "SUCCESS"
                                  /\ last.competitor_id = name
                                  /\ last.area = area
                                  /\ last.batch = scraped_listings]
    /\ UNCHANGED <<scoreVars, evalVars, workers, now, metrics, alerts>>

\* scraper.scrape(area) raises (the fetch failed after its retries)
ScrapeUnitFetchFails(name, area) ==
    /\ name \in SCRAPERS
    /\ name \in Competitors
    /\ Len(jobs) < MaxRuns
    /\ jobs' = Append(jobs, [NewJob(name, area, now) EXCEPT !.status = "FAILED",
                                !.error_message = Some(ErrorText(Exception("RequestError")))])
    /\ last' = [EmptyLog("scrape") EXCEPT !.competitor_id = name, !.area = area,
                                          !.at = now, !.status = "FAILED"]
    /\ UNCHANGED <<scoreVars, evalVars, workers, now, listings, history, metrics, alerts>>

-----------------------------------------------------------------------------
(* tasks/celery_app.py: scrape_all_sources run by several workers at once  *)
(* (the beat schedule fires it again while a run is still in progress).    *)
(* Each worker goes through the units of its trigger in the order of the   *)
(* two loops; within a unit the job row is committed, then the scraper is  *)
(* called and the loop reads the table, then the unit's work is committed. *)
(* The store runs each statement on the rows committed so far.             *)

MaxWorkers == 2
WorkerIds == 1..MaxWorkers

\* the order of `for competitor_name, ScraperClass in SCRAPERS.items()`
ScraperOrder == <<"Bayut", "Dubizzle", "MarketNews">>

RECURSIVE UnitsOf(_)
\* the (scraper, area) pairs of the two loops, in order, without the scrapers
\* that have no active competitor row
UnitsOf(names) ==
    IF names = <<>> THEN <<>>
    ELSE (IF Head(names) \in Competitors
          THEN [i \in 1..Len(AREAS) |-> <<Head(names), AREAS[i]>>]
          ELSE <<>>) \o UnitsOf(Tail(names))

\* the units a trigger gets to: the first MaxUnits of the two loops
MaxUnits == 2
TriggerUnits ==
    LET all == UnitsOf(ScraperOrder)
    IN  SubSeq(all, 1, IF Len(all) < MaxUnits THEN Len(all) ELSE MaxUnits)

\* the batches a scraper returns while workers race
RaceBatches ==
    { <<Obs("e1", "A", 100, NoValue, NoValue)>>,
      <<Obs("e1", "A", 0, NoValue, NoValue)>> }

\* a worker at the start of its trigger: pc is where it stands ("start": about
\* to add the job row of unit k; "fetch": about to call the scraper; "commit":
\* the loop is over; "done"; "aborted": an exception left the task), seen the
\* table its queries read, s its session, log how each of its units ended
IdleWorker ==
    [pc |-> "start", k |-> 1, job |-> 0, seen |-> <<>>, s |-> EmptySession(<<>>),
     found |-> 0, log |-> <<>>]

\* an UPDATE writes the columns the session assigned a new value to
MergeRow(cur, seen, mine) ==
    [f \in DOMAIN cur |-> IF mine[f] # seen[f] THEN mine[f] ELSE cur[f]]

\* the session's work against the table as it is when the session flushes:
\* UPDATEs of the rows it read, INSERTs of the rows it created
Rebase(s, seen, cur) ==
    [s EXCEPT !.rows = [i \in 1..Len(cur) |->
                           IF i <= Len(seen) THEN MergeRow(cur[i], seen[i], s.rows[i])
                           ELSE cur[i]],
              !.pending = SubSeq(s.rows, Len(seen) + 1, Len(s.rows)) \o s.pending]

\* the worker after unit k, on its way to the next unit
Advance(wk, failure) ==
    [wk EXCEPT !.pc = IF wk.k = Len(TriggerUnits) THEN "done" ELSE "start",
               !.k = @ + 1, !.job = 0, !.seen = <<>>, !.s = EmptySession(<<>>),
               !.found = 0,
               !.log = Append(@, [job |-> wk.job, failure |-> failure])]

\* job = ScrapeJob(status="RUNNING"); db.add(job); db.commit()
WorkerStartUnit(w) ==
    /\ workers[w].pc = "start"
    /\ LET unit == TriggerUnits[workers[w].k]
       IN  jobs' = Append(jobs, NewJob(unit[1], unit[2], now))
    /\ workers' = [workers EXCEPT ![w].pc = "fetch", ![w].job = Len(jobs) + 1]
    /\ UNCHANGED <<scoreVars, evalVars, now, listings, history, metrics, alerts, last>>

\* scraper.scrape(area) raises: the handler marks the job FAILED and commits
WorkerFetchFails(w) ==
    /\ workers[w].pc = "fetch"
    /\ jobs' = [jobs EXCEPT ![workers[w].job] =
                   [@ EXCEPT !.status = "FAILED",
                             !.error_message = Some(ErrorText(Exception("RequestError")))]]
    /\ workers' = [workers EXCEPT ![w] = Advance(@, "fetch")]
    /\ UNCHANGED <<scoreVars, evalVars, now, listings, history, metrics, alerts, last>>

\* the scraper returns, and the loop runs on the rows committed so far
WorkerReconcile(w, batch) ==
    /\ workers[w].pc = "fetch"
    /\ LET unit == TriggerUnits[workers[w].k]
           scraped_listings == Scrape(unit[2], batch)
           s == ReconcileBatch(EmptySession(listings), unit[1], scraped_listings, now)
       IN  workers' = [workers EXCEPT ![w].pc = "commit", ![w].seen = listings,
                                      ![w].s = s, ![w].found = Len(scraped_listings)]
    /\ UNCHANGED <<scoreVars, evalVars, now, listings, history, jobs, metrics, alerts, last>>

\* db.commit() of the try block, the job's outcome, and the except handler
WorkerCommit(w) ==
    /\ workers[w].pc = "commit"
    /\ LET wk == workers[w]
           f == FinishUnit(Rebase(wk.s, wk.seen, listings), jobs[wk.job], wk.found)
           failure == IF wk.s.raised # NoValue THEN "record"
                      ELSE IF f.job.status = "SUCCESS" THEN "none" ELSE "commit"
       IN  /\ listings' = IF f.committed THEN f.rows ELSE listings
           /\ history' = IF f.committed THEN history \o f.hist ELSE history
           /\ jobs' = [jobs EXCEPT ![wk.job] = f.job]
           /\ workers' = [workers EXCEPT ![w] =
                             IF f.aborted
                             THEN [wk EXCEPT !.pc = "aborted",
                                             !.log = Append(@, [job |-> wk.job,
                                                                failure |-> failure])]
                             ELSE Advance(wk, failure)]
    /\ UNCHANGED <<scoreVars, evalVars, now, metrics, alerts, last>>

-----------------------------------------------------------------------------
(* tasks/celery_app.py: cleanup_old_data                                   *)

JobRetentionDays == 30
StaleDays == 14

SweepListing_any_status(row, t) ==
    IF row.last_seen_at < t - StaleDays * Day /\ row.status # "REMOVED"
    THEN [row EXCEPT !.status = "REMOVED"]
    ELSE row

SweepListing_inclusive(row, t) ==
    IF row.last_seen_at <= t - StaleDays * Day /\ row.status = "ACTIVE"
    THEN [row EXCEPT !.status = "REMOVED"]
    ELSE row

SweepListing(row, t) ==
    IF row.last_seen_at < t - StaleDays * Day /\ row.status = "ACTIVE"
    THEN [row EXCEPT !.status = "REMOVED"]
    ELSE row

cleanup_old_data ==
    /\ jobs' = SelectSeq(jobs, LAMBDA j : ~(j.created_at < now - JobRetentionDays * Day))
    /\ listings' = [i \in 1..Len(listings) |-> SweepListing(listings[i], now)]
    /\ last' = EmptyLog("cleanup")
    /\ UNCHANGED <<scoreVars, evalVars, workers, now, history, metrics, alerts>>

-----------------------------------------------------------------------------
(* tasks/celery_app.py: compute_daily_metrics.  The median and the average *)
(* price per square foot of a MarketMetric are written and never read by   *)
(* the pipeline; they are left out of the row.                             *)

MaxMetrics == 2

RECURSIVE SumSeq(_)
SumSeq(q) == IF q = <<>> THEN 0 ELSE Head(q) + SumSeq(Tail(q))

MinOf(S) == CHOOSE x \in S : \A y \in S : x <= y
MaxOf(S) == CHOOSE x \in S : \A y \in S : y <= x

\* now.replace(minute=0, second=0, microsecond=0)
HourBucket(t) == t - (t % Hour)

ActiveIn_any(rows, area) ==
    SelectSeq(rows, LAMBDA l : l.area = area)

ActiveIn(rows, area) ==
    SelectSeq(rows, LAMBDA l : l.area = area /\ l.status = "ACTIVE")

\* the rows `order_by(MarketMetric.date.desc()).first()` may return for the
\* area's all-types rows: one of those with the greatest date
LatestMetricOf(rows, area) ==
    LET mine == { i \in 1..Len(rows) : rows[i].area = area /\ rows[i].property_type = NoValue }
    IN  { i \in mine : \A j \in mine : rows[j].date <= rows[i].date }

\* the MarketMetric with the percent change taken from the truncated average
AreaMetric_stored_avg(area, active, prev, t) ==
    LET prices == [i \in 1..Len(active) |-> active[i].price_aed]
        total == SumSeq(prices)
        n == Len(active)
        yesterday == HourBucket(t) - Day
        new_today == Len(SelectSeq(active, LAMBDA l : l.first_seen_at >= yesterday))
        prev_avg == IF prev = <<>> THEN 0 ELSE prev[1].avg_price_aed
        price_change_pct == IF prev_avg # 0
                            THEN Rat(((total \div n) - prev_avg) * 100, prev_avg)
                            ELSE RInt(0)
        prev_new == IF prev = <<>> THEN 1
                    ELSE IF prev[1].new_listings_count = 0 THEN 1
                    ELSE prev[1].new_listings_count
        velocity_ratio == IF prev = <<>> THEN RInt(1) ELSE Rat(new_today, prev_new)
    IN  [area |-> area, property_type |-> NoValue, date |-> HourBucket(t),
         avg_price_aed |-> total \div n,
         min_price_aed |-> MinOf({ prices[i] : i \in 1..n }),
         max_price_aed |-> MaxOf({ prices[i] : i \in 1..n }),
         new_listings_count |-> new_today,
         total_active_listings |-> n,
         heat_index |-> compute_heat_index(velocity_ratio, price_change_pct, n,
                                           DefaultAreaCapacity)]

\* the MarketMetric of one area; prev is <<>> or <<the previous row>>
AreaMetric(area, active, prev, t) ==
    LET prices == [i \in 1..Len(active) |-> active[i].price_aed]
        total == SumSeq(prices)
        n == Len(active)
        yesterday == HourBucket(t) - Day
        new_today == Len(SelectSeq(active, LAMBDA l : l.first_seen_at >= yesterday))
        prev_avg == IF prev = <<>> THEN 0 ELSE prev[1].avg_price_aed
        price_change_pct == IF prev_avg # 0
                            THEN Rat((total - prev_avg * n) * 100, prev_avg * n)
                            ELSE RInt(0)
        prev_new == IF prev = <<>> THEN 1
                    ELSE IF prev[1].new_listings_count = 0 THEN 1
                    ELSE prev[1].new_listings_count
        velocity_ratio == IF prev = <<>> THEN RInt(1) ELSE Rat(new_today, prev_new)
    IN  [area |-> area, property_type |-> NoValue, date |-> HourBucket(t),
         avg_price_aed |-> total \div n,
         min_price_aed |-> MinOf({ prices[i] : i \in 1..n }),
         max_price_aed |-> MaxOf({ prices[i] : i \in 1..n }),
         new_listings_count |-> new_today,
         total_active_listings |-> n,
         heat_index |-> compute_heat_index(velocity_ratio, price_change_pct, n,
                                           DefaultAreaCapacity)]

\* models.py uq_metric_area_date over (area, property_type, date): the store
\* (PostgreSQL, config.py) holds two NULL property types to be distinct
MetricUniqueViolation(rows, row) ==
    \E i \in 1..Len(rows) :
        /\ rows[i].area = row.area
        /\ rows[i].date = row.date
        /\ row.property_type # NoValue
        /\ rows[i].property_type = row.property_type

RECURSIVE AggregateAreas(_, _, _)
\* the loop over the areas, in the order `todo`; pick[a] is the previous
\* metric the query returns for area a (0 for none)
AggregateAreas(todo, pick, t) ==
    IF todo = <<>> THEN <<>>
    ELSE LET area == Head(todo)
             active == ActiveIn(listings, area)
             rest == AggregateAreas(Tail(todo), pick, t)
         IN  IF active = <<>> THEN rest
             ELSE <<AreaMetric(area, active,
                               IF pick[area] = 0 THEN <<>> ELSE <<metrics[pick[area]]>>,
                               t)>> \o rest

AreaNames == { AREAS[i] : i \in 1..Len(AREAS) }

compute_daily_metrics ==
    \E pick \in [AreaNames -> 0..Len(metrics)] :
        /\ \A a \in AreaNames :
              IF LatestMetricOf(metrics, a) = {} THEN pick[a] = 0
              ELSE pick[a] \in LatestMetricOf(metrics, a)
        /\ LET areas == SelectSeq(AREAS, LAMBDA a : \E i \in 1..Len(listings) : listings[i].area = a)
               new == AggregateAreas(areas, pick, now)
           IN  /\ Len(metrics) + Len(new) <= MaxMetrics
               /\ \A k \in 1..Len(new) : ~MetricUniqueViolation(metrics, new[k])
               /\ metrics' = metrics \o new
        /\ last' = EmptyLog("metrics")
        /\ UNCHANGED <<scoreVars, evalVars, workers, now, listings, history, jobs, alerts>>

\* a statement of the loop raises while area `failed` is processed (the store
\* is unreachable, a statement times out): the task has try/finally and no
\* except, and its only commit comes after the loop, so the exception leaves
\* the task and db.close() discards the rows added for the areas before
compute_daily_metrics_fails ==
    LET areas == SelectSeq(AREAS, LAMBDA a : \E i \in 1..Len(listings) : listings[i].area = a)
    IN  \E k \in 1..Len(areas) :
            /\ ActiveIn(listings, areas[k]) # <<>>
            /\ last' = [EmptyLog("metrics") EXCEPT !.status = "raised", !.area = areas[k]]
            /\ UNCHANGED <<scoreVars, evalVars, workers, now, listings, history, jobs,
                           metrics, alerts>>

-----------------------------------------------------------------------------
(* analytics/engine.py: get_heat_map                                       *)

\* m.date.strftime("%Y-%m-%d"): the day of the timestamp
DayOf(t) == t \div Day

HeatMapEntry(m) ==
    [area |-> m.area, heat_index |-> m.heat_index, avg_price_aed |-> m.avg_price_aed,
     new_listings |-> m.new_listings_count, total_active |-> m.total_active_listings,
     date |-> DayOf(m.date)]

\* the entries returned, in table order
HeatMapOf(rows) ==
    IF rows = <<>> THEN <<>>
    ELSE LET latest_date == MaxOf({ rows[i].date : i \in 1..Len(rows) })
             found == SelectSeq(rows, LAMBDA m : /\ m.date >= latest_date - Hour
                                                 /\ m.property_type = NoValue)
         IN  [i \in 1..Len(found) |-> HeatMapEntry(found[i])]

\* the read; the log keeps the entries returned
get_heat_map ==
    /\ last' = [EmptyLog("heat_map") EXCEPT !.steps = HeatMapOf(metrics)]
    /\ UNCHANGED <<scoreVars, evalVars, workers, now, listings, history, jobs,
                   metrics, alerts>>

-----------------------------------------------------------------------------
(* analytics/engine.py: check_and_create_alerts, and config.py thresholds. *)

PRICE_CHANGE_ALERT_PCT == 5
VELOCITY_SPIKE_THRESHOLD == <<3, 2>>
HEAT_INDEX_HIGH_THRESHOLD == 75
MaxAlerts == 2

\* a key of the metrics dict: missing, or present with None or with a value
Missing == [has |-> FALSE, val |-> NoValue]
Given(v) == [has |-> TRUE, val |-> v]

NewAlert(alert_type, severity, area, metric_value, threshold_value) ==
    [alert_type |-> alert_type, severity |-> severity, area |-> area,
     metric_value |-> metric_value, threshold_value |-> threshold_value]

PriceAlerts(area, m) ==
    LET pct == m.price_change_pct.val[1]
    IN  IF m.price_change_pct.has /\ m.price_change_pct.val # NoValue
           /\ RLe(RInt(PRICE_CHANGE_ALERT_PCT), RAbs(pct))
        THEN <<NewAlert(IF RLt(RInt(0), pct) THEN "PRICE_SURGE" ELSE "PRICE_DROP",
                        IF RLe(RInt(10), RAbs(pct)) THEN "CRITICAL" ELSE "WARNING",
                        area, pct, RInt(PRICE_CHANGE_ALERT_PCT))>>
        ELSE <<>>

\* metrics.get("velocity_ratio", 1.0)
VelocityOrDefault(m) == IF m.velocity_ratio.has THEN m.velocity_ratio.val ELSE Some(RInt(1))

\* metrics.get("heat_index", 0)
HeatOrDefault(m) == IF m.heat_index.has THEN m.heat_index.val ELSE Some(RInt(0))

VelocityAlerts(area, m) ==
    IF RLe(VELOCITY_SPIKE_THRESHOLD, VelocityOrDefault(m)[1])
    THEN <<NewAlert("VELOCITY_SPIKE", "WARNING", area, m.velocity_ratio.val[1],
                    VELOCITY_SPIKE_THRESHOLD)>>
    ELSE <<>>

HeatAlerts(area, m) ==
    IF RLe(RInt(HEAT_INDEX_HIGH_THRESHOLD), HeatOrDefault(m)[1])
    THEN <<NewAlert("HIGH_HEAT_INDEX", "WARNING", area, m.heat_index.val[1],
                    RInt(HEAT_INDEX_HIGH_THRESHOLD))>>
    ELSE <<>>

\* None >= float raises TypeError; metrics["k"] of a missing key raises KeyError
AlertsRaise(m) ==
    \/ VelocityOrDefault(m) = NoValue
    \/ (~m.velocity_ratio.has /\ RLe(VELOCITY_SPIKE_THRESHOLD, RInt(1)))
    \/ HeatOrDefault(m) = NoValue
    \/ (~m.heat_index.has /\ RLe(RInt(HEAT_INDEX_HIGH_THRESHOLD), RInt(0)))

\* the alerts the call commits, or raised with nothing committed
check_and_create_alerts(area, m) ==
    IF AlertsRaise(m) THEN [raised |-> TRUE, alerts |-> <<>>]
    ELSE [raised |-> FALSE,
          alerts |-> PriceAlerts(area, m) \o VelocityAlerts(area, m) \o HeatAlerts(area, m)]

-----------------------------------------------------------------------------
(* tasks/celery_app.py: check_alerts                                       *)

AlertCheckLimit == 20

\* order_by(MarketMetric.date.desc()).limit(20): the indices, latest first
\* (rows of one date in table order)
RECURSIVE LatestFirst(_, _)
LatestFirst(rows, left) ==
    IF left = {} THEN <<>>
    ELSE LET i == CHOOSE k \in left : \A j \in left :
                      \/ rows[j].date < rows[k].date
                      \/ (rows[j].date = rows[k].date /\ k <= j)
         IN  <<i>> \o LatestFirst(rows, left \ {i})

LatestMetrics(rows) ==
    LET all == LatestFirst(rows, 1..Len(rows))
    IN  SubSeq(all, 1, IF Len(all) < AlertCheckLimit THEN Len(all) ELSE AlertCheckLimit)

\* the dict with a price change passed along
AlertInput_with_price(m) ==
    [heat_index |-> Given(Some(Rat(m.heat_index, 10))),
     price_change_pct |-> Given(Some(RInt(12))),
     velocity_ratio |-> Given(Some(Rat(m.new_listings_count * 10,
                           IF m.total_active_listings < 1 THEN 1
                           ELSE m.total_active_listings)))]

\* the metrics dict check_alerts builds from a MarketMetric row
AlertInput(m) ==
    [heat_index |-> Given(Some(Rat(m.heat_index, 10))),
     price_change_pct |-> Given(NoValue),
     velocity_ratio |-> Given(Some(Rat(m.new_listings_count * 10,
                           IF m.total_active_listings < 1 THEN 1
                           ELSE m.total_active_listings)))]

RECURSIVE AlertsFor(_, _)
\* the loop `for m in latest`; a raising call ends the task
AlertsFor(rows, order) ==
    IF order = <<>> THEN <<>>
    ELSE LET m == rows[Head(order)]
             r == check_and_create_alerts(m.area, AlertInput(m))
         IN  IF r.raised THEN <<>>
             ELSE r.alerts \o AlertsFor(rows, Tail(order))

check_alerts ==
    LET new == AlertsFor(metrics, LatestMetrics(metrics))
    IN  /\ Len(alerts) + Len(new) <= MaxAlerts
        /\ alerts' = alerts \o new
        /\ last' = EmptyLog("alerts")
        /\ UNCHANGED <<scoreVars, evalVars, workers, now, listings, history, jobs, metrics>>

-----------------------------------------------------------------------------
(* The clock, and the scorer called on its own.                            *)

Tick ==
    /\ now + TickStep <= StartTime + MaxTicks * TickStep
    /\ now' = now + TickStep
    /\ UNCHANGED <<scoreVars, evalVars, workers, storeVars, last>>

MaxHours == 2

\* an hour passes (compute_daily_metrics is scheduled every hour)
TickHour ==
    /\ now + Hour <= StartTime + MaxHours * Hour
    /\ now' = now + Hour
    /\ UNCHANGED <<scoreVars, evalVars, workers, storeVars, last>>

pipelineVars == <<now, listings, history, jobs, metrics, alerts, last>>

\* the first call, on the arguments drawn
ScoreCall ==
    /\ scoreOut = <<>>
    /\ scoreOut' = <<Score(scoreIn)>>
    /\ UNCHANGED <<scoreIn, prevIn, prevOut, pipelineVars, evalVars, workers>>

\* a further call, on arguments that differ in one place from the last ones
ScoreNext(in) ==
    /\ scoreOut # <<>>
    /\ Cardinality({ f \in {"velocity_ratio", "price_change_pct", "active_listings"} :
                        in[f] # scoreIn[f] }) = 1
    /\ prevIn' = scoreIn
    /\ prevOut' = scoreOut
    /\ scoreIn' = in
    /\ scoreOut' = <<Score(in)>>
    /\ UNCHANGED <<pipelineVars, evalVars, workers>>

-----------------------------------------------------------------------------
(* Initial states.  main.py seeds the competitors and listings; a seeded   *)
(* listing carries first_seen_at = listed_at or utcnow().                  *)

SeedListing(competitor_id, s, t) ==
    [competitor_id |-> competitor_id, external_id |-> s.external_id,
     title |-> s.title, area |-> s.area, status |-> "ACTIVE",
     price_aed |-> s.price_aed, price_per_sqft |-> s.price_per_sqft,
     content_hash |-> content_hash(s),
     first_seen_at |-> IF s.listed_at # NoValue THEN s.listed_at[1] ELSE t,
     last_seen_at |-> t,
     listed_at |-> s.listed_at]

SeedBatches ==
    { <<>>, <<Obs("e1", "A", 100, NoValue, NoValue)>> }

SeedRows(batch) ==
    LET scraped == Scrape(AREAS[1], batch)
    IN  [i \in 1..Len(scraped) |-> SeedListing("Bayut", scraped[i], StartTime)]

\* no check_and_create_alerts call made on its own
NoCall == [area |-> "", metrics |-> <<>>]

ZeroInput == [velocity_ratio |-> RInt(0), price_change_pct |-> RInt(0), active_listings |-> 0]

InitStore ==
    /\ now = StartTime
    /\ \E batch \in SeedBatches : listings = SeedRows(batch)
    /\ history = <<>>
    /\ jobs = <<>>
    /\ metrics = <<>>
    /\ alerts = <<>>
    /\ last = EmptyLog("")
    /\ workers = [w \in WorkerIds |-> IdleWorker]

Init ==
    /\ InitStore
    /\ scoreIn = ZeroInput
    /\ prevIn = ZeroInput
    /\ scoreOut = <<>>
    /\ prevOut = <<>>
    /\ alertIn = NoCall
    /\ alertOut = <<>>

\* the Reconciler and the Sweeper over one area, with the full set of batches
Next ==
    \/ \E name \in SCRAPERS, batch \in Batches : ScrapeUnit(name, AREAS[1], batch)
    \/ \E name \in SCRAPERS : ScrapeUnitFetchFails(name, AREAS[1])
    \/ cleanup_old_data
    \/ Tick

Spec == Init /\ [][Next]_vars

\* the four tasks together, over both areas, with batches of one record
PipelineBatches ==
    { <<>>,
      <<Obs("e1", "A", 100, NoValue, NoValue)>>,
      <<Obs("e1", "A", 94, NoValue, NoValue)>>,
      <<Obs("e2", "A", 100, NoValue, Some(ListedEarlier))>> }

NextPipeline ==
    \/ \E name \in SCRAPERS, a \in AreaNames, batch \in PipelineBatches : ScrapeUnit(name, a, batch)
    \/ \E name \in SCRAPERS, a \in AreaNames : ScrapeUnitFetchFails(name, a)
    \/ compute_daily_metrics
    \/ check_alerts
    \/ cleanup_old_data
    \/ Tick

SpecPipeline == Init /\ [][NextPipeline]_vars

InitHeat ==
    /\ now = StartTime
    /\ listings = <<>>
    /\ history = <<>>
    /\ jobs = <<>>
    /\ metrics = <<>>
    /\ alerts = <<>>
    /\ last = EmptyLog("")
    /\ workers = [w \in WorkerIds |-> IdleWorker]
    /\ alertIn = NoCall
    /\ alertOut = <<>>
    /\ scoreIn \in ScoreInputs
    /\ prevIn = scoreIn
    /\ scoreOut = <<>>
    /\ prevOut = <<>>

NextHeat ==
    \/ ScoreCall
    \/ \E in \in ScoreInputs : ScoreNext(in)

SpecHeat == InitHeat /\ [][NextHeat]_vars

\* scrape_all_sources run by the workers at once
NextRace ==
    \E w \in WorkerIds :
        \/ WorkerStartUnit(w)
        \/ WorkerFetchFails(w)
        \/ \E batch \in RaceBatches : WorkerReconcile(w, batch)
        \/ WorkerCommit(w)

SpecRace == Init /\ [][NextRace]_vars

\* check_and_create_alerts called on its own: the bundles a caller may pass.
\* Each key is missing, present with None (as check_alerts passes
\* price_change_pct, and as a NULL heat_index column reads), or a number.
PriceBundle ==
    {Missing, Given(NoValue)} \cup
    { Given(Some(Rat(n, 100))) : n \in {-1200, -1000, -999, -500, -499, 0, 499, 500, 999, 1000, 1200} }

VelocityBundle ==
    {Missing, Given(NoValue)} \cup
    { Given(Some(Rat(n, 10000))) : n \in {10000, 14999, 15000, 20000} }

HeatBundle ==
    {Missing, Given(NoValue)} \cup
    { Given(Some(Rat(n, 10))) : n \in {0, 749, 750, 800} }

Bundles ==
    [price_change_pct : PriceBundle, velocity_ratio : VelocityBundle, heat_index : HeatBundle]

InitAlerts ==
    /\ InitStore
    /\ scoreIn = ZeroInput
    /\ prevIn = ZeroInput
    /\ scoreOut = <<>>
    /\ prevOut = <<>>
    /\ \E m \in Bundles : alertIn = [area |-> AREAS[1], metrics |-> m]
    /\ alertOut = <<>>

\* one call; the alerts it commits reach the alerts table
AlertCall ==
    /\ alertIn # NoCall
    /\ alertOut = <<>>
    /\ LET r == check_and_create_alerts(alertIn.area, alertIn.metrics)
       IN  /\ alertOut' = <<r>>
           /\ alerts' = alerts \o r.alerts
    /\ UNCHANGED <<scoreVars, workers, alertIn, now, listings, history, jobs, metrics, last>>

NextAlerts == AlertCall

SpecAlerts == InitAlerts /\ [][NextAlerts]_vars

\* cleanup_old_data over listings last seen some time ago, in the statuses
\* of models.py ListingStatus short of REMOVED, which the runs produce
SweepAges == { 0, 13 * Day, 14 * Day - 1, 14 * Day, 14 * Day + 1, 15 * Day }

SweepStatuses == { "ACTIVE", "PRICE_REDUCED", "SOLD" }

AgedListing(external_id, status, age) ==
    LET scraped == Scrape(AREAS[1], <<Obs(external_id, "A", 100, NoValue, NoValue)>>)[1]
    IN  [SeedListing("Bayut", scraped, StartTime - age) EXCEPT !.status = status]

SweepTables ==
    { <<AgedListing("e1", st, age)>> : st \in SweepStatuses, age \in SweepAges } \cup
    { <<AgedListing("e1", st1, age1), AgedListing("e2", st2, age2)>> :
          st1 \in SweepStatuses, age1 \in SweepAges,
          st2 \in SweepStatuses, age2 \in SweepAges }

InitSweep ==
    /\ now = StartTime
    /\ listings \in SweepTables
    /\ history = <<>>
    /\ jobs = <<>>
    /\ metrics = <<>>
    /\ alerts = <<>>
    /\ last = EmptyLog("")
    /\ workers = [w \in WorkerIds |-> IdleWorker]
    /\ scoreIn = ZeroInput
    /\ prevIn = ZeroInput
    /\ scoreOut = <<>>
    /\ prevOut = <<>>
    /\ alertIn = NoCall
    /\ alertOut = <<>>

NextSweep ==
    \/ cleanup_old_data
    \/ Tick

SpecSweep == InitSweep /\ [][NextSweep]_vars

\* compute_daily_metrics and get_heat_map over listings of both areas, with
\* the hours passing and a listing re-priced in between
AggPrices == { 0, 100, 105 }
AggStatuses == { "ACTIVE", "PRICE_REDUCED" }
AggAges == { 0, 2 * Day }

AggListing(external_id, area, price, status, age) ==
    LET scraped == Scrape(area, <<Obs(external_id, "A", price, NoValue, NoValue)>>)[1]
    IN  [SeedListing("Bayut", scraped, StartTime - age) EXCEPT !.status = status]

AggTables ==
    { <<AggListing("e1", a, p, st, age)>> :
          a \in AreaNames, p \in AggPrices, st \in AggStatuses, age \in AggAges } \cup
    { <<AggListing("e1", AREAS[1], p1, "ACTIVE", age1), AggListing("e2", a2, p2, st2, age2)>> :
          p1 \in AggPrices, age1 \in AggAges,
          a2 \in AreaNames, p2 \in AggPrices, st2 \in AggStatuses, age2 \in AggAges }

AggBatches == { <<Obs("e1", "A", 103, NoValue, NoValue)>> }

InitAggregate ==
    /\ now = StartTime
    /\ listings \in AggTables
    /\ history = <<>>
    /\ jobs = <<>>
    /\ metrics = <<>>
    /\ alerts = <<>>
    /\ last = EmptyLog("")
    /\ workers = [w \in WorkerIds |-> IdleWorker]
    /\ scoreIn = ZeroInput
    /\ prevIn = ZeroInput
    /\ scoreOut = <<>>
    /\ prevOut = <<>>
    /\ alertIn = NoCall
    /\ alertOut = <<>>

NextAggregate ==
    \/ compute_daily_metrics
    \/ compute_daily_metrics_fails
    \/ get_heat_map
    \/ \E batch \in AggBatches : ScrapeUnit("Bayut", AREAS[1], batch)
    \/ TickHour

SpecAggregate == InitAggregate /\ [][NextAggregate]_vars

-----------------------------------------------------------------------------
(* Properties of the Heat Index Scorer, under SpecHeat.                    *)

Scored == scoreOut # <<>>

\* C1: for every velocity_ratio, price_change_pct and active_listings >= 0,
\* with the default capacity 500, the value compute_heat_index returns lies
\* in [0, 100] (0 to 1000 tenths).
C1_HeatInRange ==
    Scored => (0 <= scoreOut[1] /\ scoreOut[1] <= 1000)

\* C1 witness: a call whose unclamped sum is negative (velocity below the
\* baseline, price score 0, saturated area) and that returned 0.0.
C1_Witness ==
    /\ Scored
    /\ RLt(scoreIn.velocity_ratio, <<1, 2>>)
    /\ RLe(scoreIn.price_change_pct, RInt(-5))
    /\ scoreIn.active_listings >= DefaultAreaCapacity
    /\ scoreOut[1] = 0

\* clamp(lo, hi, x)
Clamp(lo, hi, x) == RMax(lo, RMin(hi, x))

\* the score as section 4.3 states it: every component clamped from below
\* at 0, the sum rounded to one decimal and then clamped to [0, 100]
StatedHeat(in) ==
    LET vs == Clamp(RInt(0), RInt(40), RMul(RSub(in.velocity_ratio, <<1, 2>>), RInt(40)))
        ps == Clamp(RInt(0), RInt(40), RAdd(RInt(20), RMul(in.price_change_pct, RInt(4))))
        ds == RMul(RSub(RInt(1), RMin(RInt(1), Rat(in.active_listings, DefaultAreaCapacity))),
                   RInt(20))
        rounded == RoundScaled(RAdd(RAdd(vs, ps), ds), 10)
    IN  IF rounded < 0 THEN 0 ELSE IF rounded > 1000 THEN 1000 ELSE rounded

\* C2: for every input compute_heat_index equals
\* clamp(0, 100, round(vs + ps + ds, 1)) with vs = clamp(0, 40, (v - 0.5) * 40),
\* ps = clamp(0, 40, 20 + 4 * pct), ds = (1 - min(1, n / capacity)) * 20, so
\* that a velocity_ratio below 0.5 contributes 0.
C2_EqualsStatedFormula ==
    Scored => scoreOut[1] = StatedHeat(scoreIn)

VelocityInBand(v) == RLe(<<1, 2>>, v) /\ RLe(v, <<3, 2>>)
PriceInLinearRegion(p) == RLe(RInt(-5), p) /\ RLe(p, RInt(5))

\* C3: with the other two inputs fixed, the score is non-decreasing in
\* velocity_ratio over [0.5, 1.5] and non-decreasing in price_change_pct over
\* the linear region 0 <= 20 + 4 * pct <= 40.
C3_Monotone ==
    (Scored /\ prevOut # <<>>) =>
        /\ ( /\ prevIn.price_change_pct = scoreIn.price_change_pct
             /\ prevIn.active_listings = scoreIn.active_listings
             /\ VelocityInBand(prevIn.velocity_ratio)
             /\ VelocityInBand(scoreIn.velocity_ratio)
             /\ RLe(prevIn.velocity_ratio, scoreIn.velocity_ratio)
             => prevOut[1] <= scoreOut[1] )
        /\ ( /\ prevIn.velocity_ratio = scoreIn.velocity_ratio
             /\ prevIn.active_listings = scoreIn.active_listings
             /\ PriceInLinearRegion(prevIn.price_change_pct)
             /\ PriceInLinearRegion(scoreIn.price_change_pct)
             /\ RLe(prevIn.price_change_pct, scoreIn.price_change_pct)
             => prevOut[1] <= scoreOut[1] )

\* C3 witness: two calls that differ in velocity_ratio alone, both within
\* [0.5, 1.5], the second with the higher ratio and the strictly higher score.
C3_Witness ==
    /\ Scored
    /\ prevOut # <<>>
    /\ prevIn.price_change_pct = scoreIn.price_change_pct
    /\ prevIn.active_listings = scoreIn.active_listings
    /\ VelocityInBand(prevIn.velocity_ratio)
    /\ VelocityInBand(scoreIn.velocity_ratio)
    /\ RLt(prevIn.velocity_ratio, scoreIn.velocity_ratio)
    /\ prevOut[1] < scoreOut[1]

-----------------------------------------------------------------------------
(* Properties of the Listing Reconciler, read off the log of the latest    *)
(* scrape unit.  While last.task = "scrape" the tables are as that unit    *)
(* left them (only the clock may have moved since).                        *)

StepIndices == 1..Len(last.steps)
LastJob == jobs[Len(jobs)]

RECURSIVE SumOver(_, _)
SumOver(steps, field) ==
    IF steps = <<>> THEN 0 ELSE Head(steps)[field] + SumOver(Tail(steps), field)

\* C4: reconciling the same batch for the same source twice in succession
\* creates no PriceChangeEvent and no ListingRecord on the second pass, and
\* the second run's new and updated counts are both 0.
C4_RepeatChangesNothing ==
    (last.task = "scrape" /\ last.repeat) =>
        /\ \A k \in StepIndices :
              /\ last.steps[k].events = <<>>
              /\ last.steps[k].new_inc = 0
              /\ last.steps[k].upd_inc = 0
        /\ LastJob.listings_new = 0
        /\ LastJob.listings_updated = 0

\* 100 * (new - old): the percent change times the stored price old
HundredTimesDelta(st) == (st.scraped.price_aed - st.existing[1].price_aed) * 100

\* the record met an existing listing with a non-zero stored price and the
\* observed price differs from it by 5 percent or more
LargePriceChange(st) ==
    IF st.existing = <<>> THEN FALSE
    ELSE /\ st.existing[1].price_aed > 0
         /\ Abs(HundredTimesDelta(st)) >= 5 * st.existing[1].price_aed

\* C5: on an existing listing whose observed price differs from the stored
\* price by an absolute percent change >= 5, the status becomes PRICE_REDUCED
\* for a negative change and ACTIVE otherwise; exactly +5.0% gives ACTIVE and
\* one PriceChangeEvent of change_pct 5.0, and -6% gives PRICE_REDUCED.
C5_StatusOnLargeChange ==
    \A k \in StepIndices :
        LET st == last.steps[k]
        IN  LargePriceChange(st) =>
              /\ ~st.raised
              /\ st.result[1].status =
                    IF HundredTimesDelta(st) < 0 THEN "PRICE_REDUCED" ELSE "ACTIVE"
              /\ (HundredTimesDelta(st) = 5 * st.existing[1].price_aed =>
                    /\ st.result[1].status = "ACTIVE"
                    /\ Len(st.events) = 1
                    /\ st.events[1].change_pct = 500)
              /\ (HundredTimesDelta(st) = -6 * st.existing[1].price_aed =>
                    st.result[1].status = "PRICE_REDUCED")

\* C5 witness: one unit in which a REMOVED listing stored at 100 is observed
\* at 105 (exactly +5%: ACTIVE, change_pct 5.0) and then at 94 (PRICE_REDUCED).
C5_Witness ==
    /\ last.task = "scrape"
    /\ Len(last.steps) = 2
    /\ last.steps[1].existing # <<>>
    /\ last.steps[1].existing[1].status = "REMOVED"
    /\ last.steps[1].existing[1].price_aed = 100
    /\ last.steps[1].scraped.price_aed = 105
    /\ last.steps[1].result[1].status = "ACTIVE"
    /\ last.steps[1].events # <<>>
    /\ last.steps[1].events[1].change_pct = 500
    /\ last.steps[2].scraped.price_aed = 94
    /\ last.steps[2].result[1].status = "PRICE_REDUCED"
    /\ last.committed

\* round((new - old) / old * 100, 2), in hundredths
StatedChangePct(old, new) == RoundScaled(Rat((new - old) * 100, old), 100)

\* C6: a PriceChangeEvent is created for an observed record if and only if a
\* ListingRecord with the same (external_id, source) exists and its stored
\* price differs from the observed price; then exactly one is created, with
\* the old price, the new price and the percent change rounded to 2 decimals.
C6_EventIffPriceDiffers ==
    \A k \in StepIndices :
        LET st == last.steps[k]
            differs == IF st.existing = <<>> THEN FALSE
                       ELSE st.existing[1].price_aed # st.scraped.price_aed
        IN  /\ Len(st.events) = (IF differs THEN 1 ELSE 0)
            /\ (st.events # <<>> =>
                  /\ st.events[1].competitor_id = last.competitor_id
                  /\ st.events[1].external_id = st.scraped.external_id
                  /\ st.events[1].old_price_aed = st.existing[1].price_aed
                  /\ st.events[1].new_price_aed = st.scraped.price_aed
                  /\ st.events[1].change_pct =
                        StatedChangePct(st.existing[1].price_aed, st.scraped.price_aed))

\* the observed fingerprint equals the stored one
FingerprintMatches(st) ==
    IF st.existing = <<>> THEN FALSE
    ELSE st.existing[1].content_hash =
            <<st.scraped.external_id, st.scraped.price_aed, st.scraped.title>>

\* the steps after step k of the latest unit leave this external_id alone
LastStepOfItsListing(k) ==
    \A j \in StepIndices : j > k => last.steps[j].scraped.external_id # last.steps[k].scraped.external_id

StoredRow(competitor_id, external_id) ==
    listings[FindListing(listings, competitor_id, external_id)]

\* C7: when the observed fingerprint equals the stored fingerprint of the
\* listing with the same (external_id, source), only last_seen changes (to
\* now): price, price_per_unit_area, status, fingerprint and first_seen stay,
\* no PriceChangeEvent is created and the updated count is not incremented.
C7_MatchTouchesLastSeenOnly ==
    /\ \A k \in StepIndices :
          LET st == last.steps[k]
          IN  FingerprintMatches(st) =>
                /\ ~st.raised
                /\ st.result = Some([st.existing[1] EXCEPT !.last_seen_at = last.at])
                /\ st.events = <<>>
                /\ st.upd_inc = 0
                /\ st.new_inc = 0
                /\ (last.committed /\ LastStepOfItsListing(k) =>
                      StoredRow(last.competitor_id, st.scraped.external_id) = st.result[1])
    /\ (last.task = "scrape" /\ last.status = "SUCCESS" =>
          LastJob.listings_updated = SumOver(last.steps, "upd_inc"))

\* C7 witness: a committed unit met a listing with a matching fingerprint,
\* an older last_seen and another price_per_sqft than the one observed.
C7_Witness ==
    /\ last.task = "scrape"
    /\ last.committed
    /\ \E k \in StepIndices :
          /\ FingerprintMatches(last.steps[k])
          /\ last.steps[k].existing[1].last_seen_at < last.at
          /\ last.steps[k].existing[1].price_per_sqft # last.steps[k].scraped.price_per_sqft
          /\ LastStepOfItsListing(k)

\* C8: for a record with no ListingRecord for (external_id, source), exactly
\* one record is created, with first_seen the observed listed-at timestamp
\* when present and the current time otherwise and last_seen the current
\* time, and the new count goes up by one.
C8_NewListingTimestamps ==
    \A k \in StepIndices :
        LET st == last.steps[k]
        IN  st.existing = <<>> =>
              /\ st.new_inc = 1
              /\ st.result # <<>>
              /\ st.result[1].last_seen_at = last.at
              /\ st.result[1].first_seen_at =
                    IF st.scraped.listed_at # <<>> THEN st.scraped.listed_at[1] ELSE last.at

\* C9: over any sequence of Reconciler, Aggregator, Alert Evaluator and
\* Sweeper runs, no listing is dropped, each listing's last_seen never
\* decreases and its first_seen never changes.
C9_SeenTimestamps ==
    [][ /\ Len(listings') >= Len(listings)
        /\ \A i \in 1..Len(listings) :
              /\ listings'[i].competitor_id = listings[i].competitor_id
              /\ listings'[i].external_id = listings[i].external_id
              /\ listings'[i].last_seen_at >= listings[i].last_seen_at
              /\ listings'[i].first_seen_at = listings[i].first_seen_at ]_vars

\* C9 witness: a listing observed again after the clock moved, so that its
\* last_seen is later than its first_seen, a listing the Sweeper marked
\* REMOVED, and a metric row and an alert row written by the other two tasks.
C9_Witness ==
    /\ \E i \in 1..Len(listings) : listings[i].last_seen_at > listings[i].first_seen_at
    /\ \E i \in 1..Len(listings) : listings[i].status = "REMOVED"
    /\ metrics # <<>>
    /\ alerts # <<>>

\* C10: in a reconciliation step on an existing listing, the stored
\* fingerprint changes if and only if the observed price differs from the
\* stored price or the observed title differs from the stored title (stated
\* for the steps that complete).
C10_FingerprintIffContentChanged ==
    \A k \in StepIndices :
        LET st == last.steps[k]
        IN  (st.existing # <<>> /\ ~st.raised) =>
              ( st.result[1].content_hash # st.existing[1].content_hash
                <=> \/ st.scraped.price_aed # st.existing[1].price_aed
                    \/ st.scraped.title # st.existing[1].title )

-----------------------------------------------------------------------------
(* Properties of the four tasks together, under SpecPipeline.              *)

\* a step of the Sweeper: the only task that leaves the log "cleanup" with
\* the clock where it was
SweeperStep == last'.task = "cleanup" /\ now' = now

\* C11: no operation of the pipeline deletes a ListingRecord, so the
\* (external_id, source) keys only grow, and a listing's status becomes
\* REMOVED only in a Sweeper run: never in a Reconciler run, and never on
\* creation.
C11_NoDeleteRemovedOnlyBySweeper ==
    [][ /\ Len(listings') >= Len(listings)
        /\ \A i \in 1..Len(listings) :
              SameKey(listings'[i], listings[i].competitor_id, listings[i].external_id)
        /\ \A i \in 1..Len(listings') :
              listings'[i].status = "REMOVED" =>
                 \/ SweeperStep
                 \/ (i <= Len(listings) /\ listings[i].status = "REMOVED") ]_vars

\* C11 witness: after a sweep, a Reconciler run met a REMOVED listing and
\* left it REMOVED, in a table that has grown to two listings.
C11_Witness ==
    /\ last.task = "scrape"
    /\ last.committed
    /\ Len(listings) >= 2
    /\ \E k \in StepIndices :
          /\ last.steps[k].existing # <<>>
          /\ last.steps[k].existing[1].status = "REMOVED"
          /\ last.steps[k].result[1].status = "REMOVED"

-----------------------------------------------------------------------------
(* Properties of concurrent scrape_all_sources runs, under SpecRace.       *)

\* C12: a unit that fails (in the fetch, in the per-record loop or in the
\* commit) ends with its job FAILED and an error text of at most 500
\* characters, never RUNNING, and the units after it in the same trigger are
\* still reconciled: no exception ends the task, a job is RUNNING only while
\* its unit is in progress, and a finished trigger has been through all its
\* units.
C12_FailedUnitEndsFailed ==
    /\ \A w \in WorkerIds :
          /\ workers[w].pc # "aborted"
          /\ (workers[w].pc = "done" => Len(workers[w].log) = Len(TriggerUnits))
          /\ \A n \in 1..Len(workers[w].log) :
                LET e == workers[w].log[n]
                IN  IF e.failure = "none" THEN jobs[e.job].status = "SUCCESS"
                    ELSE /\ jobs[e.job].status = "FAILED"
                         /\ jobs[e.job].error_message # NoValue
                         /\ jobs[e.job].error_message[1].len <= 500
    /\ \A j \in 1..Len(jobs) :
          jobs[j].status = "RUNNING" =>
             \E w \in WorkerIds : workers[w].job = j /\ workers[w].pc \in {"fetch", "commit"}

\* the rows of the table with the key of `row`
RowsWithKeyOf(row) ==
    { i \in 1..Len(listings) : SameKey(listings[i], row.competitor_id, row.external_id) }

\* C15: when two Reconciler runs for the same source interleave and both
\* observe an external_id not yet persisted, every state holds at most one
\* ListingRecord for that (external_id, source): the store rejects the second
\* create.
C15_OneRowPerKey ==
    \A i \in 1..Len(listings) : RowsWithKeyOf(listings[i]) = {i}

\* C15 witness: a worker whose loop found no row for the key and created
\* one had its INSERT rejected, the key having been committed by the other
\* worker in between; the table holds that one row.
C15_Witness ==
    \E w \in WorkerIds :
        /\ workers[w].pc = "aborted"
        /\ workers[w].s.pending # <<>>
        /\ FindListing(workers[w].seen, workers[w].s.pending[1].competitor_id,
                       workers[w].s.pending[1].external_id) = 0
        /\ Cardinality(RowsWithKeyOf(workers[w].s.pending[1])) = 1


-----------------------------------------------------------------------------
(* Properties of compute_daily_metrics.                                    *)

\* C13: the metrics table never holds two rows for the same area, property
\* type (unset included) and date bucket, so running compute_daily_metrics
\* twice for the same area in the same bucket leaves exactly one row.
C13_OneMetricPerKey ==
    \A i, j \in 1..Len(metrics) :
        (/\ metrics[i].area = metrics[j].area
         /\ metrics[i].property_type = metrics[j].property_type
         /\ metrics[i].date = metrics[j].date) => i = j


\* a step of compute_daily_metrics
AggregatorStep == last'.task = "metrics" /\ now' = now

ListingsOf(a) == { i \in 1..Len(listings) : listings[i].area = a }

\* the rows a step adds to the metrics table for area a
MetricsAddedFor(a) == { k \in Len(metrics) + 1 .. Len(metrics') : metrics'[k].area = a }

\* C14: a run of compute_daily_metrics completes, adds no row for an area
\* whose listings are all non-ACTIVE, and adds exactly one row for every area
\* with an ACTIVE listing; the rows already stored are kept.
C14_NoRowWithoutActive ==
    [][AggregatorStep =>
          /\ Len(metrics') >= Len(metrics)
          /\ SubSeq(metrics', 1, Len(metrics)) = metrics
          /\ \A a \in AreaNames :
                LET active == { i \in ListingsOf(a) : listings[i].status = "ACTIVE" }
                IN  /\ (ListingsOf(a) # {} /\ active = {}) => MetricsAddedFor(a) = {}
                    /\ active # {} => Cardinality(MetricsAddedFor(a)) = 1]_vars

\* compute_daily_metrics has just run over an area whose only listings are
\* not ACTIVE and which has no row, and over another area that got its row
C14_Witness ==
    /\ last.task = "metrics"
    /\ \E a, b \in AreaNames :
          /\ a # b
          /\ ListingsOf(a) # {}
          /\ \A i \in ListingsOf(a) : listings[i].status # "ACTIVE"
          /\ \A k \in 1..Len(metrics) : metrics[k].area # a
          /\ \E i \in ListingsOf(b) : listings[i].status = "ACTIVE"
          /\ \E k \in 1..Len(metrics) : metrics[k].area = b /\ metrics[k].date = HourBucket(now)


-----------------------------------------------------------------------------
(* Properties of check_and_create_alerts.                                  *)

\* a key of the bundle carries a number
Present(x) == x.has /\ x.val # NoValue

AlertsOfType(types) == SelectSeq(alerts, LAMBDA a : a.alert_type \in types)

StatedPriceAlerts ==
    LET x == alertIn.metrics.price_change_pct
        v == x.val[1]
    IN  IF Present(x) /\ RLe(RInt(5), RAbs(v))
        THEN <<[alert_type |-> IF RLt(RInt(0), v) THEN "PRICE_SURGE" ELSE "PRICE_DROP",
                severity |-> IF RLe(RInt(10), RAbs(v)) THEN "CRITICAL" ELSE "WARNING",
                area |-> alertIn.area, metric_value |-> v, threshold_value |-> RInt(5)]>>
        ELSE <<>>

StatedVelocityAlerts ==
    LET x == alertIn.metrics.velocity_ratio
        v == x.val[1]
    IN  IF Present(x) /\ RLe(Rat(3, 2), v)
        THEN <<[alert_type |-> "VELOCITY_SPIKE", severity |-> "WARNING",
                area |-> alertIn.area, metric_value |-> v, threshold_value |-> Rat(3, 2)]>>
        ELSE <<>>

StatedHeatAlerts ==
    LET x == alertIn.metrics.heat_index
        v == x.val[1]
    IN  IF Present(x) /\ RLe(RInt(75), v)
        THEN <<[alert_type |-> "HIGH_HEAT_INDEX", severity |-> "WARNING",
                area |-> alertIn.area, metric_value |-> v, threshold_value |-> RInt(75)]>>
        ELSE <<>>

\* C16: after a call, the price alerts persisted are exactly the one the
\* price rule states: an alert iff price_change_pct is present with absolute
\* value >= 5.0, CRITICAL from 10 and WARNING below, PRICE_SURGE when
\* positive and PRICE_DROP when negative, metric_value the value itself.
C16_PriceRule ==
    alertOut # <<>> => AlertsOfType({"PRICE_SURGE", "PRICE_DROP"}) = StatedPriceAlerts

\* C17: after a call, a VELOCITY_SPIKE / WARNING alert is persisted iff
\* velocity_ratio is present and >= 1.5 (1.5 fires, 1.4999 and an absent
\* ratio do not).
C17_VelocityRule ==
    alertOut # <<>> => AlertsOfType({"VELOCITY_SPIKE"}) = StatedVelocityAlerts

\* C18: for every bundle the call completes without error and persists
\* exactly one alert per rule whose condition holds, each rule deciding on
\* its own key; the heat rule fires iff heat_index >= 75.0, and every alert
\* carries the triggering value and the configured threshold.
C18_EveryBundleCompletes ==
    alertOut # <<>> =>
        /\ ~alertOut[1].raised
        /\ alerts = StatedPriceAlerts \o StatedVelocityAlerts \o StatedHeatAlerts


-----------------------------------------------------------------------------
(* Properties of cleanup_old_data.                                         *)

-----------------------------------------------------------------------------
(* Properties of a batch that repeats an external_id.                      *)

\* the external_ids the last unit's batch carries more than once
RepeatedIds ==
    { last.batch[i].external_id : i \in { k \in 1..Len(last.batch) :
          \E j \in 1..Len(last.batch) :
              j # k /\ last.batch[j].external_id = last.batch[k].external_id } }

LastRecordOf(id) ==
    LET ks == { k \in 1..Len(last.batch) : last.batch[k].external_id = id }
    IN  last.batch[CHOOSE k \in ks : \A j \in ks : j <= k]

\* C20: a unit whose batch carries an external_id more than once succeeds
\* and leaves exactly one listing for that (external_id, source), with the
\* price and the fingerprint of the last such record, whether or not the
\* listing was stored before.
C20_LastDuplicateWins ==
    (last.task = "scrape" /\ RepeatedIds # {}) =>
        /\ last.status = "SUCCESS"
        /\ last.committed
        /\ \A id \in RepeatedIds :
              LET rows == { i \in 1..Len(listings) :
                              SameKey(listings[i], last.competitor_id, id) }
              IN  /\ Cardinality(rows) = 1
                  /\ \A i \in rows :
                        /\ listings[i].price_aed = LastRecordOf(id).price_aed
                        /\ listings[i].content_hash = content_hash(LastRecordOf(id))


-----------------------------------------------------------------------------
(* Properties of the values compute_daily_metrics derives, under           *)
(* SpecAggregate.                                                          *)

ActiveListingsOf(a) ==
    { i \in ListingsOf(a) : listings[i].status = "ACTIVE" }

RECURSIVE PriceSum(_)
PriceSum(S) ==
    IF S = {} THEN 0
    ELSE LET i == CHOOSE x \in S : TRUE IN listings[i].price_aed + PriceSum(S \ {i})

\* the rows of area a stored before the step that carry its greatest date
MostRecentPrior(a) ==
    LET mine == { i \in 1..Len(metrics) : metrics[i].area = a }
    IN  { i \in mine : \A j \in mine : metrics[j].date <= metrics[i].date }

\* the heat index stated for a row of area a written against the prior row p
StatedHeatAgainst(row, a, p) ==
    LET n == Cardinality(ActiveListingsOf(a))
        total == PriceSum(ActiveListingsOf(a))
        prevAvg == metrics[p].avg_price_aed
        prevNew == IF metrics[p].new_listings_count < 1 THEN 1
                   ELSE metrics[p].new_listings_count
    IN  compute_heat_index(Rat(row.new_listings_count, prevNew),
                           RMul(RDiv(RSub(Rat(total, n), RInt(prevAvg)), RInt(prevAvg)),
                                RInt(100)),
                           row.total_active_listings, DefaultAreaCapacity)

\* C21: the heat_index of a row compute_daily_metrics writes is the scorer's
\* value for (velocity_ratio, price_change_pct, total_active_listings), with
\* price_change_pct = (current average - previous average) / previous
\* average * 100 and velocity_ratio = new_listings_count / max(previous
\* new_listings_count, 1) against the area's most recent prior row, and with
\* 0 and 1.0 when the area has no prior row.  (A previous average of 0 is
\* left to C22.)
C21_HeatFromPriorMetric ==
    [][AggregatorStep =>
          \A k \in Len(metrics) + 1 .. Len(metrics') :
              LET row == metrics'[k]
                  a == row.area
              IN  /\ row.total_active_listings = Cardinality(ActiveListingsOf(a))
                  /\ IF MostRecentPrior(a) = {}
                     THEN row.heat_index =
                              compute_heat_index(RInt(1), RInt(0), row.total_active_listings,
                                                 DefaultAreaCapacity)
                     ELSE \E p \in MostRecentPrior(a) :
                              metrics[p].avg_price_aed # 0 =>
                                  row.heat_index = StatedHeatAgainst(row, a, p)]_vars

\* compute_daily_metrics has written a second row for an area whose average
\* moved from a non-zero previous average, and whose heat index differs from
\* the one of the row before
C21_Witness ==
    /\ last.task = "metrics"
    /\ last.status # "raised"
    /\ \E k \in 1..Len(metrics) : \E p \in 1..Len(metrics) :
          /\ p < k
          /\ metrics[p].area = metrics[k].area
          /\ metrics[p].avg_price_aed # 0
          /\ metrics[p].avg_price_aed # metrics[k].avg_price_aed
          /\ metrics[p].heat_index # metrics[k].heat_index


-----------------------------------------------------------------------------
(* Properties of the ratio computations.                                   *)

\* C22: no ratio computation fails on a zero denominator; in the Reconciler,
\* a record observed for a listing whose stored price is 0 is processed
\* without an error, and the unit does not end on a ZeroDivisionError.
C22_NoZeroDenominatorFailure ==
    last.task = "scrape" =>
        /\ \A k \in 1..Len(last.steps) :
              (/\ last.steps[k].existing # <<>>
               /\ last.steps[k].existing[1].price_aed = 0) => ~last.steps[k].raised
        /\ \A j \in 1..Len(jobs) :
              jobs[j].error_message # NoValue =>
                  jobs[j].error_message[1].kind # "ZeroDivisionError"


-----------------------------------------------------------------------------
(* Properties of a failing compute_daily_metrics run.                      *)

\* C23: a failure while the metric of one area is aggregated or written does
\* not leave the compute_daily_metrics task as an exception, and every other
\* area with an ACTIVE listing still gets its row persisted by that run.
C23_AreaFailureIsolated ==
    [][AggregatorStep =>
          /\ last'.status # "raised"
          /\ \A a \in AreaNames :
                (a # last'.area /\ ActiveListingsOf(a) # {}) =>
                    Cardinality(MetricsAddedFor(a)) = 1]_vars


-----------------------------------------------------------------------------
(* Properties of get_heat_map.                                             *)

\* C24: the heat map read returns at most one entry per area, and the entry
\* of an area is that of the area's most recent all-types row.
C24_HeatMapLatestPerArea ==
    last.task = "heat_map" =>
        /\ \A i, j \in 1..Len(last.steps) :
              last.steps[i].area = last.steps[j].area => i = j
        /\ \A i \in 1..Len(last.steps) :
              \E p \in MostRecentPrior(last.steps[i].area) :
                  /\ metrics[p].property_type = NoValue
                  /\ last.steps[i] = HeatMapEntry(metrics[p])


-----------------------------------------------------------------------------
(* Frame properties.                                                       *)

\* C25: a Sweeper run leaves every listing that is not ACTIVE exactly as it
\* was, however long ago it was last seen, changes no field of any listing
\* other than the status, and creates no PriceChangeEvent.
C25_SweepFrame ==
    [][SweeperStep =>
          /\ history' = history
          /\ Len(listings') = Len(listings)
          /\ \A i \in 1..Len(listings) :
                /\ listings[i].status # "ACTIVE" => listings'[i] = listings[i]
                /\ listings'[i] = [listings[i] EXCEPT !.status = listings'[i].status]]_vars

\* the Sweeper has run, after the clock moved on, over a PRICE_REDUCED or
\* SOLD listing last seen more than 14 days before and over a listing it
\* had set to REMOVED
C25_Witness ==
    /\ last.task = "cleanup"
    /\ now > StartTime
    /\ \E i, j \in 1..Len(listings) :
          /\ listings[i].status \in {"PRICE_REDUCED", "SOLD"}
          /\ now - listings[i].last_seen_at > 14 * Day
          /\ listings[j].status = "REMOVED"


\* the record met an existing listing and its price either equals the stored
\* one or differs from a non-zero stored price by less than 5 percent
SmallOrNoPriceChange(st) ==
    IF st.existing = <<>> THEN FALSE
    ELSE \/ st.scraped.price_aed = st.existing[1].price_aed
         \/ /\ st.existing[1].price_aed > 0
            /\ Abs(HundredTimesDelta(st)) < 5 * st.existing[1].price_aed

\* C26: a Reconciler run leaves the status of an existing listing as it was
\* (REMOVED, SOLD and PRICE_REDUCED included) and refreshes its last_seen when
\* the record matches the fingerprint, changes the title only or changes the
\* price by less than 5%; a price change of 5% or more sets ACTIVE or
\* PRICE_REDUCED whatever the status was.
C26_StatusFrame ==
    last.task = "scrape" =>
        \A k \in StepIndices :
            LET st == last.steps[k]
            IN  /\ SmallOrNoPriceChange(st) =>
                      /\ ~st.raised
                      /\ st.result[1].status = st.existing[1].status
                      /\ st.result[1].last_seen_at = last.at
                /\ LargePriceChange(st) =>
                      /\ ~st.raised
                      /\ st.result[1].status \in {"ACTIVE", "PRICE_REDUCED"}
                      /\ st.result[1].last_seen_at = last.at

\* a REMOVED listing was observed again at a price less than 5% away from the
\* stored one: it stays REMOVED with its last_seen refreshed
C26_Witness ==
    /\ last.task = "scrape"
    /\ last.committed
    /\ \E k \in StepIndices :
          LET st == last.steps[k]
          IN  /\ SmallOrNoPriceChange(st)
              /\ st.existing[1].status = "REMOVED"
              /\ st.scraped.price_aed # st.existing[1].price_aed
              /\ st.result[1].status = "REMOVED"
              /\ st.result[1].last_seen_at > st.existing[1].last_seen_at


-----------------------------------------------------------------------------
(* Properties of check_alerts.                                             *)

\* a step of check_alerts
AlertCheckStep == last'.task = "alerts" /\ now' = now

\* C27: a check_alerts run keeps the alerts stored and adds only
\* VELOCITY_SPIKE and HIGH_HEAT_INDEX alerts, never PRICE_SURGE or PRICE_DROP,
\* whatever metric rows are stored.
C27_NoPriceAlertFromCheck ==
    [][AlertCheckStep =>
          /\ Len(alerts') >= Len(alerts)
          /\ SubSeq(alerts', 1, Len(alerts)) = alerts
          /\ \A k \in Len(alerts) + 1 .. Len(alerts') :
                alerts'[k].alert_type \in {"VELOCITY_SPIKE", "HIGH_HEAT_INDEX"}]_vars

\* check_alerts has run over stored metric rows and added alerts of both
\* types
C27_Witness ==
    /\ last.task = "alerts"
    /\ metrics # <<>>
    /\ \E i, j \in 1..Len(alerts) :
          /\ alerts[i].alert_type = "VELOCITY_SPIKE"
          /\ alerts[j].alert_type = "HIGH_HEAT_INDEX"

====
